---- MODULE Spec2Model ----
(***************************************************************************)
(* A model of Source/Source_code/PysatSupport.py: the Minesweeper-to-CNF   *)
(* encoder (convert_to_flatten .. generate_CNF), the formula assembly and  *)
(* solver hand-off of solve_by_pysat, the decoder ouput_for_pysat and the  *)
(* driver Pysat_Solution.                                                  *)
(*                                                                         *)
(* Python lists are 0-indexed, TLA+ sequences 1-indexed: a position        *)
(* <<r, c>> keeps Python's 0-based coordinates and indexes a grid value g  *)
(* as g[r + 1][c + 1].  A grid object is a Python list of row lists: the   *)
(* variable heap holds the row objects by identity, and a grid (or a copy  *)
(* of it) is the sequence of the identities of its rows.  Cells are the    *)
(* strings "_", "0".."8", "T", "G".                                        *)
(***************************************************************************)
EXTENDS Integers, Sequences, FiniteSets, TLC

VARIABLES size, heap, grid, pc, call, ret, cnf, result, output

vars == <<size, heap, grid, pc, call, ret, cnf, result, output>>

(***************************************************************************)
(* Bounds of the model.                                                    *)
(***************************************************************************)
\* side lengths of the sizes the geometry functions are called with
MaxSide == 3
\* n of list_combination ranges over 0..MaxN, k over 0..MaxN + 1
MaxN == 4
\* grids handed to the encoder have rows * cols <= MaxCells cells
MaxCells == 4
\* hint cells of those grids hold 0..MaxHint
MaxHint == 2
\* hint cells of the grids handed to the decoder alone hold 0..DecHint
DecHint == 1
\* assignments handed to the decoder alone have at most MaxLen entries
MaxLen == 3

(***************************************************************************)
(* Helpers for Python built-ins.                                           *)
(***************************************************************************)
Abs(x) ==
  IF x < 0 THEN -x ELSE x

Digits ==
  <<"0", "1", "2", "3", "4", "5", "6", "7", "8">>

\* int(cell) for a cell holding a hint
int(cell) ==
  CHOOSE n \in 0..8 : Digits[n + 1] = cell

\* the grid value a list of row objects denotes
Deref(h, g) ==
  [i \in 1..Len(g) |-> h[g[i]]]

(***************************************************************************)
(* convert_to_flatten, convert_to_2D                                       *)
(***************************************************************************)
\* faulty variant: the row stride taken from num_r instead of num_c
convert_to_flatten_swapped(pos, sz) ==
  pos[1] * sz[1] + pos[2] + 1

convert_to_flatten(pos, sz) ==
  LET num_c == sz[2]
      r == pos[1]
      c == pos[2]
  IN  r * num_c + c + 1

convert_to_2D(flat, sz) ==
  LET num_c == sz[2]
      c == (flat - 1) % num_c
      r == (flat - 1) \div num_c
  IN  <<r, c>>

(***************************************************************************)
(* generate_around: the nested loops over i, j in range(-1, 2), flattened  *)
(* to one index k = 3 * (i + 1) + (j + 1) + 1, keeping the positions that  *)
(* pass the bounds test, in loop order.                                    *)
(***************************************************************************)
around_in_bounds(p, sz) ==
  /\ 0 <= p[1] /\ p[1] < sz[1]
  /\ 0 <= p[2] /\ p[2] < sz[2]

\* faulty variant: new_r <= num_r instead of new_r < num_r
around_in_bounds_inclusive(p, sz) ==
  /\ 0 <= p[1] /\ p[1] <= sz[1]
  /\ 0 <= p[2] /\ p[2] < sz[2]

\* faulty variant: generate_around with the inclusive row test
generate_around_loose(pos, sz) ==
  LET cand == [k \in 1..9 |->
                 <<pos[1] + ((k - 1) \div 3) - 1, pos[2] + ((k - 1) % 3) - 1>>]
      Keep(p) == around_in_bounds_inclusive(p, sz)
  IN  SelectSeq(cand, Keep)

generate_around(pos, sz) ==
  LET cand == [k \in 1..9 |->
                 <<pos[1] + ((k - 1) \div 3) - 1, pos[2] + ((k - 1) % 3) - 1>>]
      Keep(p) == around_in_bounds(p, sz)
  IN  SelectSeq(cand, Keep)

\* faulty variant: the test for the unknown marker left out
is_valid_any_cell(pos, g, sz) ==
  /\ 0 <= pos[1] /\ pos[1] < sz[1]
  /\ 0 <= pos[2] /\ pos[2] < sz[2]

is_valid(pos, g, sz) ==
  /\ 0 <= pos[1] /\ pos[1] < sz[1]
  /\ 0 <= pos[2] /\ pos[2] < sz[2]
  /\ g[pos[1] + 1][pos[2] + 1] = "_"

(***************************************************************************)
(* list_combination.  combinations(lo, hi, k) is itertools.combinations    *)
(* over range(lo, hi + 1): the tuples that start with lo, then those that  *)
(* do not, which is the order itertools yields them in.  For k < 0         *)
(* itertools raises ValueError.                                            *)
(***************************************************************************)
RECURSIVE combinations(_, _, _)
combinations(lo, hi, k) ==
  IF k = 0 THEN << <<>> >>
  ELSE IF lo > hi THEN <<>>
  ELSE LET rest == combinations(lo + 1, hi, k - 1)
       IN  [i \in 1..Len(rest) |-> <<lo>> \o rest[i]]
             \o combinations(lo + 1, hi, k)

list_combination_raises(n, k) ==
  ~(k > n) /\ k < 0

\* faulty variant: k >= n instead of k > n
list_combination_off_by_one(n, k) ==
  IF k >= n THEN <<>> ELSE combinations(1, n, k)

list_combination(n, k) ==
  IF k > n THEN <<>> ELSE combinations(1, n, k)

(***************************************************************************)
(* generate_CNF.  list_cells: the flattened variables of the unknown cells *)
(* around pos, in scan order.                                              *)
(***************************************************************************)
list_cells(pos, g, sz) ==
  LET Unknown(p) == is_valid(p, g, sz)
      kept == SelectSeq(generate_around(pos, sz), Unknown)
  IN  [i \in 1..Len(kept) |-> convert_to_flatten(kept[i], sz)]

\* number = int(grid[pos[0]][pos[1]])
number_at(pos, g) ==
  int(g[pos[1] + 1][pos[2] + 1])

\* one clause per combination: the literals sign * list_cells[index - 1]
clauses_of(comb, cells, sign) ==
  [i \in 1..Len(comb) |->
     [j \in 1..Len(comb[i]) |-> sign * cells[comb[i][j]]]]

\* faulty variant: combinations of size number instead of number + 1
first_clauses_short(pos, g, sz) ==
  LET cells == list_cells(pos, g, sz)
  IN  clauses_of(list_combination(Len(cells), number_at(pos, g)), cells, -1)

\* first_comb and the loop over it
first_clauses(pos, g, sz) ==
  LET cells == list_cells(pos, g, sz)
      num_valid == Len(cells)
      first_comb == list_combination(num_valid, number_at(pos, g) + 1)
  IN  clauses_of(first_comb, cells, -1)

\* second_comb and the loop over it
second_clauses(pos, g, sz) ==
  LET cells == list_cells(pos, g, sz)
      num_valid == Len(cells)
      second_comb == list_combination(num_valid, num_valid - number_at(pos, g) + 1)
  IN  clauses_of(second_comb, cells, 1)

\* the call raises when one of its two list_combination calls does
generate_CNF_raises(pos, g, sz) ==
  /\ g[pos[1] + 1][pos[2] + 1] # "_"
  /\ LET num_valid == Len(list_cells(pos, g, sz))
         number == number_at(pos, g)
     IN  \/ list_combination_raises(num_valid, number + 1)
         \/ list_combination_raises(num_valid, num_valid - number + 1)

generate_CNF(pos, g, sz) ==
  IF g[pos[1] + 1][pos[2] + 1] = "_" THEN <<>>
  ELSE first_clauses(pos, g, sz) \o second_clauses(pos, g, sz)

(***************************************************************************)
(* solve_by_pysat: the per-cell clause lists in row-major order, each      *)
(* appended to the CNF by cnf.extend.  idx = r * num_c + c.                *)
(***************************************************************************)
RECURSIVE extend_from(_, _, _)
extend_from(idx, g, sz) ==
  IF idx >= sz[1] * sz[2] THEN <<>>
  ELSE generate_CNF(<<idx \div sz[2], idx % sz[2]>>, g, sz)
         \o extend_from(idx + 1, g, sz)

build_raises(g, sz) ==
  \E r \in 0..(sz[1] - 1), c \in 0..(sz[2] - 1) : generate_CNF_raises(<<r, c>>, g, sz)

\* CNF.nv: the highest variable of the clauses appended, 0 when there is none
nv_of(F) ==
  LET used == UNION {{Abs(F[i][j]) : j \in 1..Len(F[i])} : i \in 1..Len(F)}
  IN  IF used = {} THEN 0 ELSE CHOOSE y \in used : \A z \in used : z <= y

(***************************************************************************)
(* The solver called by solve_by_pysat (pysat's Solver, an external        *)
(* library): solve() is true iff some assignment of the variables 1..nv    *)
(* satisfies every clause, and get_model() is then one such assignment,    *)
(* entry i holding i or -i.  An empty clause has no true literal.          *)
(***************************************************************************)
Models(nv) ==
  {[i \in 1..nv |-> IF i \in T THEN i ELSE -i] : T \in SUBSET (1..nv)}

Satisfies(m, F) ==
  \A i \in 1..Len(F) : \E j \in 1..Len(F[i]) : m[Abs(F[i][j])] = F[i][j]

SatModels(F) ==
  {m \in Models(nv_of(F)) : Satisfies(m, F)}

(***************************************************************************)
(* ouput_for_pysat.  copy(g) is output = grid.copy(): a new outer list     *)
(* holding the same row objects (the outer list itself is never written,   *)
(* so its identity is not modelled).  output_loop is the loop over r, c    *)
(* with idx = r * num_c + c, writing output[r][c] into the row object      *)
(* out[r + 1]; it yields the heap after the loop.                          *)
(***************************************************************************)
copy(g) ==
  g

\* faulty variant: the last entry of list_result is never read
RECURSIVE output_loop_inclusive(_, _, _, _, _)
output_loop_inclusive(idx, list_result, out, sz, h) ==
  IF idx >= sz[1] * sz[2] THEN h
  ELSE LET r == idx \div sz[2]
           c == idx % sz[2]
           index == r * sz[2] + c
       IN  IF h[out[r + 1]][c + 1] # "_"
           THEN output_loop_inclusive(idx + 1, list_result, out, sz, h)
           ELSE IF index + 1 < Len(list_result) /\ list_result[index + 1] > 0
           THEN output_loop_inclusive(idx + 1, list_result, out, sz,
                                      [h EXCEPT ![out[r + 1]][c + 1] = "T"])
           ELSE output_loop_inclusive(idx + 1, list_result, out, sz,
                                      [h EXCEPT ![out[r + 1]][c + 1] = "G"])

\* faulty variant: index off by one, reading the next variable's entry
RECURSIVE output_loop_shifted(_, _, _, _, _)
output_loop_shifted(idx, list_result, out, sz, h) ==
  IF idx >= sz[1] * sz[2] THEN h
  ELSE LET r == idx \div sz[2]
           c == idx % sz[2]
           index == r * sz[2] + c + 1
       IN  IF h[out[r + 1]][c + 1] # "_"
           THEN output_loop_shifted(idx + 1, list_result, out, sz, h)
           ELSE IF index < Len(list_result) /\ list_result[index + 1] > 0
           THEN output_loop_shifted(idx + 1, list_result, out, sz,
                                    [h EXCEPT ![out[r + 1]][c + 1] = "T"])
           ELSE output_loop_shifted(idx + 1, list_result, out, sz,
                                    [h EXCEPT ![out[r + 1]][c + 1] = "G"])

RECURSIVE output_loop(_, _, _, _, _)
output_loop(idx, list_result, out, sz, h) ==
  IF idx >= sz[1] * sz[2] THEN h
  ELSE LET r == idx \div sz[2]
           c == idx % sz[2]
           index == r * sz[2] + c
       IN  IF h[out[r + 1]][c + 1] # "_"
           THEN output_loop(idx + 1, list_result, out, sz, h)
           ELSE IF index < Len(list_result) /\ list_result[index + 1] > 0
           THEN output_loop(idx + 1, list_result, out, sz,
                            [h EXCEPT ![out[r + 1]][c + 1] = "T"])
           ELSE output_loop(idx + 1, list_result, out, sz,
                            [h EXCEPT ![out[r + 1]][c + 1] = "G"])

\* the heap after ouput_for_pysat(list_result, g, sz); the call returns copy(g)
ouput_for_pysat(list_result, g, sz, h) ==
  output_loop(0, list_result, copy(g), sz, h)

(***************************************************************************)
(* States.  call is the last call made, with the values its arguments had *)
(* when it was made, and ret what it returned: ret.raised when it raised,  *)
(* ret.none when it returned None.                                         *)
(***************************************************************************)
NoCall ==
  [fn |-> "none", args |-> <<>>]

NoRet ==
  [raised |-> FALSE, none |-> FALSE, value |-> <<>>]

Returned(v) ==
  [raised |-> FALSE, none |-> FALSE, value |-> v]

Positions(sz) ==
  {<<r, c>> : r \in 0..(sz[1] - 1), c \in 0..(sz[2] - 1)}

CellValues(maxhint) ==
  {"_"} \cup {Digits[n + 1] : n \in 0..maxhint}

\* a grid as read_input_file builds it: rows distinct objects, num_r rows of
\* num_c cells, each the unknown marker or a hint
InitGrid(sizes, maxhint) ==
  /\ size \in sizes
  /\ heap \in [1..size[1] -> [1..size[2] -> CellValues(maxhint)]]
  /\ grid = [i \in 1..size[1] |-> i]

InitRest ==
  /\ pc = "idle"
  /\ call = NoCall
  /\ ret = NoRet
  /\ cnf = <<>>
  /\ result = NoRet
  /\ output = <<>>

(***************************************************************************)
(* Spec: the encoder and the driver on every grid of at most MaxCells      *)
(* cells.                                                                  *)
(***************************************************************************)
GridSizes ==
  {sz \in (1..MaxCells) \X (1..MaxCells) : sz[1] * sz[2] <= MaxCells}

Init ==
  /\ InitGrid(GridSizes, MaxHint)
  /\ InitRest

\* a call generate_CNF(pos, grid, size) on the grid
Call_generate_CNF(pos) ==
  /\ pc = "idle"
  /\ call' = [fn |-> "generate_CNF", args |-> <<pos, Deref(heap, grid), size>>]
  /\ ret' = IF generate_CNF_raises(pos, Deref(heap, grid), size)
            THEN [raised |-> TRUE, none |-> FALSE, value |-> <<>>]
            ELSE Returned(generate_CNF(pos, Deref(heap, grid), size))
  /\ UNCHANGED <<size, heap, grid, pc, cnf, result, output>>

\* Pysat_Solution(grid, size) up to the solver: solve_by_pysat builds the
\* clause lists and extends the CNF with each, or a generate_CNF call raises
\* and the exception leaves Pysat_Solution
solve_by_pysat_build ==
  /\ pc = "idle"
  /\ call' = [fn |-> "Pysat_Solution", args |-> <<Deref(heap, grid), size>>]
  /\ IF build_raises(Deref(heap, grid), size)
     THEN /\ pc' = "raised"
          /\ ret' = [raised |-> TRUE, none |-> FALSE, value |-> <<>>]
          /\ cnf' = cnf
     ELSE /\ pc' = "built"
          /\ ret' = NoRet
          /\ cnf' = extend_from(0, Deref(heap, grid), size)
  /\ UNCHANGED <<size, heap, grid, result, output>>

\* the solver: a satisfying assignment in variable order, or None
solve_by_pysat_solve ==
  /\ pc = "built"
  /\ pc' = "solved"
  /\ IF SatModels(cnf) # {}
     THEN \E m \in SatModels(cnf) : result' = Returned(m)
     ELSE result' = [raised |-> FALSE, none |-> TRUE, value |-> <<>>]
  /\ UNCHANGED <<size, heap, grid, call, ret, cnf, output>>

\* result is not None: return ouput_for_pysat(result, grid, size)
Pysat_Solution_decode ==
  /\ pc = "solved"
  /\ ~result.none
  /\ pc' = "done"
  /\ heap' = ouput_for_pysat(result.value, grid, size, heap)
  /\ output' = copy(grid)
  /\ ret' = Returned(Deref(heap', output'))
  /\ UNCHANGED <<size, grid, call, cnf, result>>

\* result is None: "No solution found.", return None
Pysat_Solution_none ==
  /\ pc = "solved"
  /\ result.none
  /\ pc' = "done"
  /\ ret' = [raised |-> FALSE, none |-> TRUE, value |-> <<>>]
  /\ UNCHANGED <<size, heap, grid, call, cnf, result, output>>

Next ==
  \/ \E pos \in Positions(size) : Call_generate_CNF(pos)
  \/ solve_by_pysat_build
  \/ solve_by_pysat_solve
  \/ Pysat_Solution_decode
  \/ Pysat_Solution_none

Spec ==
  Init /\ [][Next]_vars

(***************************************************************************)
(* SpecPure: the coordinate mapper, the neighbourhood scan and the         *)
(* combination generator, called on every size up to MaxSide x MaxSide.    *)
(***************************************************************************)
InitPure ==
  /\ size \in (1..MaxSide) \X (1..MaxSide)
  /\ heap = <<>>
  /\ grid = <<>>
  /\ InitRest

Call_convert_to_flatten(pos) ==
  /\ pc = "idle"
  /\ call' = [fn |-> "convert_to_flatten", args |-> <<pos, size>>]
  /\ ret' = Returned(convert_to_flatten(pos, size))
  /\ UNCHANGED <<size, heap, grid, pc, cnf, result, output>>

Call_convert_to_2D(flat) ==
  /\ pc = "idle"
  /\ call' = [fn |-> "convert_to_2D", args |-> <<flat, size>>]
  /\ ret' = Returned(convert_to_2D(flat, size))
  /\ UNCHANGED <<size, heap, grid, pc, cnf, result, output>>

Call_generate_around(pos) ==
  /\ pc = "idle"
  /\ call' = [fn |-> "generate_around", args |-> <<pos, size>>]
  /\ ret' = Returned(generate_around(pos, size))
  /\ UNCHANGED <<size, heap, grid, pc, cnf, result, output>>

Call_list_combination(n, k) ==
  /\ pc = "idle"
  /\ ~list_combination_raises(n, k)
  /\ call' = [fn |-> "list_combination", args |-> <<n, k>>]
  /\ ret' = Returned(list_combination(n, k))
  /\ UNCHANGED <<size, heap, grid, pc, cnf, result, output>>

NextPure ==
  \/ \E pos \in Positions(size) : Call_convert_to_flatten(pos)
  \/ \E flat \in 1..(size[1] * size[2]) : Call_convert_to_2D(flat)
  \/ \E pos \in (-2..(size[1] + 1)) \X (-2..(size[2] + 1)) : Call_generate_around(pos)
  \/ \E n \in 0..MaxN, k \in 0..(MaxN + 1) : Call_list_combination(n, k)

SpecPure ==
  InitPure /\ [][NextPure]_vars

(***************************************************************************)
(* SpecDecode: ouput_for_pysat called on a grid with an assignment of any  *)
(* length up to MaxLen, entries negative, zero or positive.                *)
(***************************************************************************)
Assignments ==
  UNION {[1..n -> {-1, 0, 1}] : n \in 0..MaxLen}

InitDecode ==
  /\ InitGrid(GridSizes, DecHint)
  /\ InitRest

Call_ouput_for_pysat(list_result) ==
  /\ pc = "idle"
  /\ pc' = "done"
  /\ call' = [fn |-> "ouput_for_pysat", args |-> <<list_result, Deref(heap, grid), size>>]
  /\ heap' = ouput_for_pysat(list_result, grid, size, heap)
  /\ output' = copy(grid)
  /\ ret' = Returned(Deref(heap', output'))
  /\ UNCHANGED <<size, grid, cnf, result>>

NextDecode ==
  \E list_result \in Assignments : Call_ouput_for_pysat(list_result)

SpecDecode ==
  InitDecode /\ [][NextDecode]_vars

(***************************************************************************)
(* Vocabulary of the properties, stated without the operators above.       *)
(***************************************************************************)
RECURSIVE Binom(_, _)
Binom(n, k) ==
  IF k < 0 \/ k > n THEN 0
  ELSE IF k = 0 THEN 1
  ELSE Binom(n - 1, k - 1) + Binom(n - 1, k)

Range(f) ==
  {f[i] : i \in DOMAIN f}

InBounds(p, sz) ==
  p[1] \in 0..(sz[1] - 1) /\ p[2] \in 0..(sz[2] - 1)

\* p and q at row and column distance at most 1
Near(p, q) ==
  Abs(p[1] - q[1]) <= 1 /\ Abs(p[2] - q[2]) <= 1

\* the 8 neighbours of p that lie in the grid
Neighbours(p, sz) ==
  {q \in Positions(sz) : Near(p, q) /\ q # p}

CellAt(g, p) ==
  g[p[1] + 1][p[2] + 1]

\* the variable of a cell: its 1-based row-major rank
VarOf(p, sz) ==
  Cardinality({q \in Positions(sz) : q[1] < p[1] \/ (q[1] = p[1] /\ q[2] <= p[2])})

\* the variables of the unknown neighbours of p
UnknownVars(p, g, sz) ==
  {VarOf(q, sz) : q \in {n \in Neighbours(p, sz) : CellAt(g, n) = "_"}}

IsHint(g, p) ==
  CellAt(g, p) # "_"

HintOf(g, p) ==
  CHOOSE n \in 0..8 : Digits[n + 1] = CellAt(g, p)

\* a clause list under the truth assignment "exactly the variables in T are true"
Holds(F, T) ==
  \A i \in 1..Len(F) : \E j \in 1..Len(F[i]) :
     \/ F[i][j] > 0 /\ F[i][j] \in T
     \/ F[i][j] < 0 /\ (-F[i][j]) \notin T

RowMajorBefore(p, q) ==
  p[1] < q[1] \/ (p[1] = q[1] /\ p[2] < q[2])

LexBefore(a, b) ==
  \E i \in 1..Len(a) : a[i] < b[i] /\ \A j \in 1..(i - 1) : a[j] = b[j]

Ascending(a) ==
  \A i \in 1..(Len(a) - 1) : a[i] < a[i + 1]

(***************************************************************************)
(* C6.  convert_to_flatten and convert_to_2D are mutually inverse on the   *)
(* in-bounds positions and the variables 1..rows*cols: converting the      *)
(* result of either call back gives its argument; convert_to_flatten       *)
(* never yields 0, sends no two in-bounds positions to one variable and    *)
(* reaches exactly 1..rows*cols.                                           *)
(***************************************************************************)
C6_Bijection ==
  /\ call.fn = "convert_to_flatten" =>
       /\ ret.value # 0
       /\ ret.value \in 1..(size[1] * size[2])
       /\ convert_to_2D(ret.value, size) = call.args[1]
       /\ \A q \in Positions(size) :
            q # call.args[1] => convert_to_flatten(q, size) # ret.value
       /\ {convert_to_flatten(q, size) : q \in Positions(size)} = 1..(size[1] * size[2])
  /\ call.fn = "convert_to_2D" =>
       /\ InBounds(ret.value, size)
       /\ convert_to_flatten(ret.value, size) = call.args[1]

C6_Witness ==
  /\ call.fn = "convert_to_2D"
  /\ size = <<2, 3>>
  /\ call.args[1] = 6
  /\ ret.value = <<1, 2>>

(***************************************************************************)
(* C7.  For n >= 0 and k >= 0, list_combination(n, k) is empty when k > n, *)
(* and otherwise lists exactly the C(n, k) size-k subsets of {1..n}, each  *)
(* once, each as an ascending tuple, in lexicographic order;               *)
(* list_combination(n, 0) holds the single empty tuple.                    *)
(***************************************************************************)
C7_Combinations ==
  call.fn = "list_combination" =>
    LET n == call.args[1]
        k == call.args[2]
        L == ret.value
    IN  /\ ~ret.raised
        /\ k > n => L = <<>>
        /\ k = 0 => L = << <<>> >>
        /\ k <= n =>
             /\ Len(L) = Binom(n, k)
             /\ \A i \in 1..Len(L) : Len(L[i]) = k /\ Ascending(L[i])
             /\ \A i \in 1..(Len(L) - 1) : LexBefore(L[i], L[i + 1])
             /\ {Range(L[i]) : i \in 1..Len(L)}
                  = {S \in SUBSET (1..n) : Cardinality(S) = k}

C7_Witness ==
  /\ call.fn = "list_combination"
  /\ call.args = <<4, 2>>
  /\ Len(ret.value) = 6

(***************************************************************************)
(* C8.  Every position generate_around yields lies in                      *)
(* [0, rows) x [0, cols), whatever the position asked for; for an          *)
(* in-bounds position the yield is exactly the in-bounds positions at row  *)
(* and column distance at most 1, the position itself included, each once, *)
(* in row-major order.                                                     *)
(***************************************************************************)
C8_NeighbourBounds ==
  call.fn = "generate_around" =>
    LET p == call.args[1]
        L == ret.value
    IN  /\ \A i \in 1..Len(L) : InBounds(L[i], size)
        /\ InBounds(p, size) =>
             /\ Range(L) = Neighbours(p, size) \cup {p}
             /\ \A i \in 1..(Len(L) - 1) : RowMajorBefore(L[i], L[i + 1])

C8_Witness ==
  /\ call.fn = "generate_around"
  /\ size = <<3, 3>>
  /\ call.args[1] = <<1, 1>>
  /\ Len(ret.value) = 9

(***************************************************************************)
(* C1.  For a hint cell with hint h and m unknown neighbours, 0 <= h <= m, *)
(* generate_CNF returns clauses that hold under a truth assignment iff     *)
(* exactly h of the m unknown-neighbour variables are true; the            *)
(* upper-bound clauses alone hold iff at most h are true and the           *)
(* lower-bound clauses alone iff at least h are.                           *)
(***************************************************************************)
C1_ExactlyH ==
  call.fn = "generate_CNF" =>
    LET p == call.args[1]
        g == call.args[2]
        sz == call.args[3]
        U == UnknownVars(p, g, sz)
    IN  (IsHint(g, p) /\ HintOf(g, p) <= Cardinality(U)) =>
          /\ ~ret.raised
          /\ \A T \in SUBSET (1..(sz[1] * sz[2])) :
               LET true == Cardinality(T \cap U)
               IN  /\ Holds(ret.value, T) <=> true = HintOf(g, p)
                   /\ Holds(first_clauses(p, g, sz), T) <=> true <= HintOf(g, p)
                   /\ Holds(second_clauses(p, g, sz), T) <=> true >= HintOf(g, p)

C1_Witness ==
  /\ call.fn = "generate_CNF"
  /\ IsHint(call.args[2], call.args[1])
  /\ HintOf(call.args[2], call.args[1]) = 1
  /\ Cardinality(UnknownVars(call.args[1], call.args[2], call.args[3])) = 3
  /\ Len(ret.value) = 4

(***************************************************************************)
(* C2.  On a grid holding a hint cell whose hint exceeds its number of     *)
(* unknown neighbours, Pysat_Solution builds the formula without raising,  *)
(* the formula is unsatisfiable, and None is returned without the decoder  *)
(* being invoked.                                                          *)
(***************************************************************************)
OverHinted(g, sz) ==
  \E p \in Positions(sz) :
     IsHint(g, p) /\ HintOf(g, p) > Cardinality(UnknownVars(p, g, sz))

C2_NoSolutionNeverCrashes ==
  (call.fn = "Pysat_Solution" /\ OverHinted(call.args[1], call.args[2])) =>
    /\ pc # "raised"
    /\ ~ret.raised
    /\ pc \in {"built", "solved", "done"} => SatModels(cnf) = {}
    /\ pc \in {"solved", "done"} => result.none
    /\ pc = "done" => ret.none /\ output = <<>>

(***************************************************************************)
(* C3.  Round trip: when the formula is satisfiable and the solver hands   *)
(* back a satisfying assignment in variable order, ouput_for_pysat marks   *)
(* an originally-unknown cell "T" exactly when its own variable is true in *)
(* the assignment, and in the decoded grid every hint cell has exactly its *)
(* hint value of "T" cells among its 8 neighbours.                         *)
(***************************************************************************)
C3_RoundTrip ==
  (call.fn = "Pysat_Solution" /\ pc = "done" /\ ~ret.none) =>
    LET g == call.args[1]
        sz == call.args[2]
        m == result.value
        out == ret.value
        True(v) == v <= Len(m) /\ m[v] > 0
    IN  /\ \A p \in Positions(sz) :
             CellAt(g, p) = "_" => (CellAt(out, p) = "T" <=> True(VarOf(p, sz)))
        /\ \A p \in Positions(sz) :
             IsHint(g, p) =>
               Cardinality({q \in Neighbours(p, sz) : CellAt(out, q) = "T"})
                 = HintOf(g, p)

C3_Witness ==
  /\ call.fn = "Pysat_Solution"
  /\ pc = "done"
  /\ ~ret.none
  /\ call.args[1] = <<<<"_", "1">>, <<"_", "_">>>>
  /\ ret.value = <<<<"G", "1">>, <<"G", "T">>>>

(***************************************************************************)
(* C9.  For a hint cell with hint h and unknown-neighbour variables        *)
(* v_1..v_m, generate_CNF returns first one all-negative clause per        *)
(* (h+1)-element subset of them and then one all-positive clause per       *)
(* (m-h+1)-element subset, C(m, h+1) + C(m, m-h+1) clauses in total, a     *)
(* step adding nothing when its subset size exceeds m; for an unknown cell *)
(* it returns the empty list.                                              *)
(***************************************************************************)
ClauseShape(p, g, sz, L) ==
  LET U == UnknownVars(p, g, sz)
      m == Cardinality(U)
      h == HintOf(g, p)
      n1 == Binom(m, h + 1)
      n2 == Binom(m, m - h + 1)
  IN  /\ Len(L) = n1 + n2
      /\ \A i \in 1..Len(L) : Ascending([j \in 1..Len(L[i]) |-> Abs(L[i][j])])
      /\ \A i \in 1..n1 : \A j \in 1..Len(L[i]) : L[i][j] < 0
      /\ \A i \in (n1 + 1)..Len(L) : \A j \in 1..Len(L[i]) : L[i][j] > 0
      /\ {{-x : x \in Range(L[i])} : i \in 1..n1}
           = {S \in SUBSET U : Cardinality(S) = h + 1}
      /\ {Range(L[i]) : i \in (n1 + 1)..Len(L)}
           = {S \in SUBSET U : Cardinality(S) = m - h + 1}

C9_ClauseList ==
  call.fn = "generate_CNF" =>
    LET p == call.args[1]
        g == call.args[2]
        sz == call.args[3]
    IN  /\ ~ret.raised
        /\ ~IsHint(g, p) => ret.value = <<>>
        /\ IsHint(g, p) => ClauseShape(p, g, sz, ret.value)

(***************************************************************************)
(* C10.  Every literal of every clause of the assembled formula is         *)
(* non-zero with absolute value in 1..rows*cols and names an unknown cell  *)
(* adjacent to a hint cell; every literal generate_CNF returns for a cell  *)
(* names an unknown cell adjacent to that cell, never a hint cell and      *)
(* never the cell itself.                                                  *)
(***************************************************************************)
LiteralOk(lit, p, g, sz) ==
  /\ lit # 0
  /\ Abs(lit) \in 1..(sz[1] * sz[2])
  /\ \E q \in Neighbours(p, sz) :
       VarOf(q, sz) = Abs(lit) /\ CellAt(g, q) = "_"
  /\ \A q \in Positions(sz) : IsHint(g, q) => VarOf(q, sz) # Abs(lit)

C10_Literals ==
  /\ (call.fn = "Pysat_Solution" /\ pc # "raised") =>
       \A i \in 1..Len(cnf) :
          \E p \in Positions(call.args[2]) :
             /\ IsHint(call.args[1], p)
             /\ \A j \in 1..Len(cnf[i]) :
                  LiteralOk(cnf[i][j], p, call.args[1], call.args[2])
  /\ (call.fn = "generate_CNF" /\ ~ret.raised) =>
       \A i \in 1..Len(ret.value) : \A j \in 1..Len(ret.value[i]) :
          LiteralOk(ret.value[i][j], call.args[1], call.args[2], call.args[3])

C10_Witness ==
  /\ call.fn = "Pysat_Solution"
  /\ pc = "built"
  /\ call.args[1] = <<<<"_", "1", "0", "_">>>>
  /\ cnf = <<<<1>>, <<-4>>>>

(***************************************************************************)
(* C4.  The grid ouput_for_pysat returns has the dimensions of the grid it *)
(* was given; a cell that was not unknown equals the original cell; an     *)
(* unknown cell at (r, c) is "T" if r*cols + c is a valid index of the     *)
(* assignment and the entry there is positive, and "G" otherwise; no       *)
(* unknown marker remains.                                                 *)
(***************************************************************************)
C4_Decode ==
  call.fn = "ouput_for_pysat" =>
    LET lr == call.args[1]
        g == call.args[2]
        sz == call.args[3]
        out == ret.value
    IN  /\ Len(out) = Len(g)
        /\ \A r \in 1..Len(g) : Len(out[r]) = Len(g[r])
        /\ \A p \in Positions(sz) :
             LET idx == p[1] * sz[2] + p[2]
             IN  /\ CellAt(out, p) # "_"
                 /\ CellAt(g, p) # "_" => CellAt(out, p) = CellAt(g, p)
                 /\ CellAt(g, p) = "_" =>
                      CellAt(out, p) =
                        IF idx \in 0..(Len(lr) - 1) /\ lr[idx + 1] > 0
                        THEN "T" ELSE "G"

C4_Witness ==
  /\ call.fn = "ouput_for_pysat"
  /\ call.args[1] = <<1, 1>>
  /\ call.args[2] = <<<<"_", "0">>, <<"_", "_">>>>
  /\ ret.value = <<<<"T", "0">>, <<"G", "G">>>>

(***************************************************************************)
(* C5.  ouput_for_pysat leaves the grid it was given unchanged: after the  *)
(* call every cell of the caller's grid holds the value it held before.    *)
(***************************************************************************)
C5_InputUnchanged ==
  call.fn = "ouput_for_pysat" => Deref(heap, grid) = call.args[2]

====
